---- MODULE Spec2Model ----
(***************************************************************************)
(* A model of perf-test.js, the performance test script of the groups API. *)
(*                                                                         *)
(* The script is one async control flow.  Each await of an HTTP call is a  *)
(* position of the flow (pc); an action is the code that runs between the  *)
(* arrival of one response and the sending of the next request.  The       *)
(* servers (identity provider, groups API, members API) are the            *)
(* environment: the outcome of every call is chosen by the action that     *)
(* receives the response.                                                  *)
(*                                                                         *)
(*   Spec     main(): token, health check, create, patch, addMembers in    *)
(*            chunks, delete in the finally block, top-level handlers.     *)
(*   SpecGet  getNMembers(): the paginated read of the members API.        *)
(***************************************************************************)
EXTENDS Integers, Sequences, FiniteSets, TLC

VARIABLES
    config,      \* which of AUTH0_CLIENT_ID / AUTH0_CLIENT_SECRET are set
    size,        \* INITIAL_MEMBER_SIZE
    pc,          \* position of main(): the await it is suspended at
    members,     \* the member list handed to addMembers
    groupId,     \* <<>> until createTestGroup got resp.data.id, then <<id>>
    i,           \* addMembers: loop index
    result,      \* addMembers: result array
    elapsed,     \* addMembers: <<et - st>> of the last chunk that was timed
    requests,    \* HTTP requests sent so far, in order
    responses,   \* responses received so far, in order
    pending,     \* the error thrown out of the try block of main (or NoError)
    error,       \* the error main() rejected with (or NoError)
    resp,        \* main: <<>> until addMembers returned, then <<its result>>
    logged,      \* what the top-level then/catch handlers logged
    n,           \* getNMembers: requested count
    dirSize,     \* members API: number of members the directory holds
    gpc,         \* position of getNMembers
    page,        \* getNMembers: page
    fetched,     \* getNMembers: the local array `members`
    pageReq      \* getNMembers: <<>> or the page request in flight / last sent

mainVars == <<config, size, pc, members, groupId, i, result, elapsed,
              requests, responses, pending, error, resp, logged>>
getVars  == <<n, dirSize, gpc, page, fetched, pageReq>>
vars     == <<config, size, pc, members, groupId, i, result, elapsed,
              requests, responses, pending, error, resp, logged,
              n, dirSize, gpc, page, fetched, pageReq>>

----------------------------------------------------------------------------
(* Bounds of the model. *)

\* largest INITIAL_MEMBER_SIZE explored
MaxSize == 250
\* largest count asked of getNMembers
MaxN == 250
\* largest directory of the members API
MaxDir == 260
\* getNMembers stops being explored once page exceeds this
MaxPage == 4

(* Constants of the program. *)

chunkSize == 100
maxPageSize == 100
TimeLimit == 30000

----------------------------------------------------------------------------
(* Errors.  kind names the throw statement, at the request whose axios     *)
(* promise rejected (for kind "HttpError"), listed the text interpolated   *)
(* into the message after the colon, as a sequence of rendered elements.   *)

Err(kind, at, listed) == [kind |-> kind, at |-> at, listed |-> listed]
NoError == Err("none", "", <<>>)
HttpError(at) == Err("HttpError", at, <<>>)

\* How an axios call can end: resolved with status 200, resolved with another
\* 2xx status, or rejected (no response, or a status outside 2xx).
Outcomes == {"ok", "non200", "rejected"}

Req(kind, body) == [kind |-> kind, body |-> body]
Resp(status, data) == [status |-> status, data |-> data]

\* String(obj) of a plain object, as a template literal renders it.
ObjectToString(obj) == [text |-> "[object Object]"]

\* `${array}`: Array.prototype.toString joins String(element) of every element.
ArrayToString(arr) == [k \in 1..Len(arr) |-> ObjectToString(arr[k])]

Min(a, b) == IF a < b THEN a ELSE b

\* members.slice(from, to)
Slice(s, from, to) == SubSeq(s, from + 1, Min(to, Len(s)))

IsFailed(member) == member.status = "failed"

\* resp.data.members.filter(member => member.status === 'failed')
FailedOf(data) == SelectSeq(data, IsFailed)


----------------------------------------------------------------------------
(* main() *)

\* the members main() builds and maps for addMembers; a generated userId is
\* represented by the position it was generated at
GenMembers(count) == [k \in 1..count |-> [memberId |-> k, membershipType |-> "user"]]

\* the member statuses the groups API may answer a chunk of len members with:
\* which positions it reports as failed
FailKinds == {"none", "first", "last", "all"}
FailSet(kind, len) ==
    CASE kind = "none"  -> {}
      [] kind = "first" -> {1}
      [] kind = "last"  -> {len}
      [] kind = "all"   -> 1..len

\* the round-trip times explored for a chunk
ElapsedTimes == {0, TimeLimit, TimeLimit + 1, 2 * TimeLimit}

\* the bulk-add response to a chunk: one entry per member sent
AddData(chunk, failSet) ==
    [k \in 1..Len(chunk) |->
        [memberId |-> chunk[k].memberId,
         status |-> IF k \in failSet THEN "failed" ELSE "success"]]

\* AddStatusOk without the status check: every response that arrives passes
AddStatusUnchecked(o) == o # "rejected"

\* addMembers: resp.status !== 200 does not hold
AddStatusOk(o) == o = "ok"

\* OverBudget with >= for >
OverBudgetInclusive(ms) == ms >= TimeLimit

\* et - st > 30000
OverBudget(ms) == ms > TimeLimit

\* Chunk with an end index one too far
ChunkTooLong(ms, idx) == Slice(ms, idx, idx + chunkSize + 1)

\* members.slice(i, i + chunkSize)
Chunk(ms, idx) == Slice(ms, idx, idx + chunkSize)

\* NextIndex that advances one short of a chunk
NextIndexOverlapping(idx) == idx + chunkSize - 1

\* i += chunkSize
NextIndex(idx) == idx + chunkSize

\* i < members.length
LoopCond(idx, ms) == idx < Len(ms)

\* main() throws outside the try block: the promise of main() rejects
Reject(err) ==
    /\ pc' = "rejected"
    /\ error' = err

\* Finally as plain code after the try block: skipped when the block throws
FinallySkippedOnThrow(gid, err) ==
    IF err = NoError
    THEN /\ requests' = Append(requests, Req("delete", gid))
         /\ pending' = err
         /\ pc' = "cleanup"
    ELSE /\ pending' = err
         /\ pc' = "rejected"
         /\ UNCHANGED requests

\* the finally block of main(), entered with the completion of the try block
\* (err = NoError: normal completion): deleteTestGroup(groupId) is called
Finally(gid, err) ==
    /\ requests' = Append(requests, Req("delete", gid))
    /\ pending' = err
    /\ pc' = "cleanup"

\* addMembers(gid, members): the loop head with index idx and result res;
\* either the next chunk is posted, or addMembers returns res to main(),
\* whose try block completes and whose finally block runs
LoopFrom(gid, idx, res) ==
    /\ i' = idx
    /\ result' = res
    /\ IF LoopCond(idx, members)
       THEN /\ requests' = Append(requests, Req("addMembers", Chunk(members, idx)))
            /\ pc' = "add"
            /\ UNCHANGED <<pending, resp>>
       ELSE /\ resp' = <<res>>
            /\ Finally(gid, NoError)

\* MainStart without the AUTH0_CLIENT_SECRET check
MainStartNoSecretCheck ==
    /\ pc = "start"
    /\ IF ~config.AUTH0_CLIENT_ID
       THEN Reject(Err("MissingClientId", "", <<>>)) /\ UNCHANGED requests
       ELSE /\ requests' = Append(requests, Req("token", <<>>))
            /\ pc' = "token"
            /\ UNCHANGED error
    /\ UNCHANGED <<config, size, members, groupId, i, result, elapsed,
                   responses, pending, resp, logged>>
    /\ UNCHANGED getVars

\* main(): the config checks, then helper.getM2Mtoken()
MainStart ==
    /\ pc = "start"
    /\ IF ~config.AUTH0_CLIENT_ID
       THEN Reject(Err("MissingClientId", "", <<>>)) /\ UNCHANGED requests
       ELSE IF ~config.AUTH0_CLIENT_SECRET
       THEN Reject(Err("MissingClientSecret", "", <<>>)) /\ UNCHANGED requests
       ELSE /\ requests' = Append(requests, Req("token", <<>>))
            /\ pc' = "token"
            /\ UNCHANGED error
    /\ UNCHANGED <<config, size, members, groupId, i, result, elapsed,
                   responses, pending, resp, logged>>
    /\ UNCHANGED getVars

\* the token arrives (or not); the members are generated; groupApiHealthCheck
TokenResp(o) ==
    /\ pc = "token"
    /\ o \in {"ok", "rejected"}
    /\ responses' = Append(responses, Resp(o, <<>>))
    /\ IF o = "ok"
       THEN /\ members' = GenMembers(size)
            /\ requests' = Append(requests, Req("health", <<>>))
            /\ pc' = "health"
            /\ UNCHANGED error
       ELSE /\ Reject(HttpError("token"))
            /\ UNCHANGED <<members, requests>>
    /\ UNCHANGED <<config, size, groupId, i, result, elapsed, pending, resp, logged>>
    /\ UNCHANGED getVars

\* groupApiHealthCheck after its await; then createTestGroup posts the group
HealthResp(o) ==
    /\ pc = "health"
    /\ responses' = Append(responses, Resp(o, <<>>))
    /\ CASE o = "ok" ->
              /\ requests' = Append(requests, Req("create", <<>>))
              /\ pc' = "create"
              /\ UNCHANGED error
         [] o = "non200" ->
              Reject(Err("HealthCheckFailed", "", <<>>)) /\ UNCHANGED requests
         [] o = "rejected" ->
              Reject(HttpError("health")) /\ UNCHANGED requests
    /\ UNCHANGED <<config, size, members, groupId, i, result, elapsed,
                   pending, resp, logged>>
    /\ UNCHANGED getVars

\* createTestGroup after the POST: the status check, then patchTestGroup
CreateResp(o, id) ==
    /\ pc = "create"
    /\ responses' = Append(responses, Resp(o, <<id>>))
    /\ CASE o = "ok" ->
              /\ requests' = Append(requests, Req("patch", <<id>>))
              /\ pc' = "patch"
              /\ UNCHANGED error
         [] o = "non200" ->
              Reject(Err("CreateFailed", "", <<>>)) /\ UNCHANGED requests
         [] o = "rejected" ->
              Reject(HttpError("create")) /\ UNCHANGED requests
    /\ UNCHANGED <<config, size, members, groupId, i, result, elapsed,
                   pending, resp, logged>>
    /\ UNCHANGED getVars

\* patchTestGroup after the PATCH; createTestGroup returns resp.data.id, main()
\* enters the try block and addMembers starts its loop
PatchResp(o) ==
    /\ pc = "patch"
    /\ responses' = Append(responses, Resp(o, <<>>))
    /\ CASE o = "ok" ->
              /\ groupId' = requests[Len(requests)].body
              /\ LoopFrom(requests[Len(requests)].body, 0, <<>>)
              /\ UNCHANGED error
         [] o = "non200" ->
              /\ Reject(Err("PatchFailed", "", <<>>))
              /\ UNCHANGED <<requests, groupId, i, result, pending, resp>>
         [] o = "rejected" ->
              /\ Reject(HttpError("patch"))
              /\ UNCHANGED <<requests, groupId, i, result, pending, resp>>
    /\ UNCHANGED <<config, size, members, elapsed, logged>>
    /\ UNCHANGED getVars

\* addMembers after the await of a chunk's POST: the status check, the time
\* check, the check of the member statuses, the push, and the next iteration
AddResp(o, ms, fail) ==
    /\ pc = "add"
    /\ LET chunk == requests[Len(requests)].body
           data  == AddData(chunk, FailSet(fail, Len(chunk)))
       IN IF o = "rejected"
          THEN /\ responses' = Append(responses, Resp(o, <<>>))
               /\ Finally(groupId, HttpError("addMembers"))
               /\ UNCHANGED <<i, result, elapsed, resp>>
          ELSE IF ~AddStatusOk(o)
          THEN /\ responses' = Append(responses, Resp(o, data))
               /\ Finally(groupId, Err("AddFailed", "", <<>>))
               /\ UNCHANGED <<i, result, elapsed, resp>>
          ELSE /\ responses' = Append(responses, Resp(o, data))
               /\ elapsed' = <<ms>>
               /\ IF OverBudget(ms)
                  THEN /\ Finally(groupId, Err("TimeLimit", "", <<>>))
                       /\ UNCHANGED <<i, result, resp>>
                  ELSE IF \E k \in 1..Len(data) : IsFailed(data[k])
                  THEN /\ Finally(groupId, Err("MembersFailed", "",
                                               ArrayToString(FailedOf(data))))
                       /\ UNCHANGED <<i, result, resp>>
                  ELSE LoopFrom(groupId, NextIndex(i), result \o data)
    /\ UNCHANGED <<config, size, members, groupId, error, logged>>
    /\ UNCHANGED getVars

\* deleteTestGroup after its await, in the finally block of main(): a throw
\* here replaces the completion of the try block; otherwise the try block's
\* error, if any, is rethrown
DeleteResp(o) ==
    /\ pc = "cleanup"
    /\ responses' = Append(responses, Resp(o, <<>>))
    /\ CASE o = "rejected" -> Reject(HttpError("delete"))
         [] o = "non200" -> Reject(Err("DeleteFailed", "", <<>>))
         [] o = "ok" ->
              IF pending = NoError
              THEN pc' = "resolved" /\ UNCHANGED error
              ELSE Reject(pending)
    /\ UNCHANGED <<config, size, members, groupId, i, result, elapsed,
                   requests, pending, resp, logged>>
    /\ UNCHANGED getVars

\* main().then(...)
TopThen ==
    /\ pc = "resolved"
    /\ logged' = <<[level |-> "info", what |-> NoError]>>
    /\ pc' = "exit"
    /\ UNCHANGED <<config, size, members, groupId, i, result, elapsed,
                   requests, responses, pending, error, resp>>
    /\ UNCHANGED getVars

\* main().then(...).catch(...)
TopCatch ==
    /\ pc = "rejected"
    /\ logged' = <<[level |-> "error", what |-> error]>>
    /\ pc' = "exit"
    /\ UNCHANGED <<config, size, members, groupId, i, result, elapsed,
                   requests, responses, pending, error, resp>>
    /\ UNCHANGED getVars

\* getNMembers is not running (main() never calls it)
GetIdle ==
    /\ n = 0
    /\ dirSize = 0
    /\ gpc = "idle"
    /\ page = 1
    /\ fetched = <<>>
    /\ pageReq = <<>>

Init ==
    /\ config \in [AUTH0_CLIENT_ID : BOOLEAN, AUTH0_CLIENT_SECRET : BOOLEAN]
    /\ size \in 0..MaxSize
    /\ pc = "start"
    /\ members = <<>>
    /\ groupId = <<>>
    /\ i = 0
    /\ result = <<>>
    /\ elapsed = <<>>
    /\ requests = <<>>
    /\ responses = <<>>
    /\ pending = NoError
    /\ error = NoError
    /\ resp = <<>>
    /\ logged = <<>>
    /\ GetIdle

Next ==
    \/ MainStart
    \/ \E o \in Outcomes : TokenResp(o)
    \/ \E o \in Outcomes : HealthResp(o)
    \/ \E o \in Outcomes, id \in {"g1"} : CreateResp(o, id)
    \/ \E o \in Outcomes : PatchResp(o)
    \/ \E o \in Outcomes, ms \in ElapsedTimes, fail \in FailKinds : AddResp(o, ms, fail)
    \/ \E o \in Outcomes : DeleteResp(o)
    \/ TopThen
    \/ TopCatch

Spec == Init /\ [][Next]_vars

----------------------------------------------------------------------------
(* getNMembers() *)

\* the directory sizes explored: empty, one member, fewer than some counts,
\* more than every count
DirSizes == {0, 1, MaxDir \div 2, MaxDir}

\* the members API: page p of size s of a directory of dirSize members, which
\* are numbered from 1: the entries (p-1)*s+1 .. p*s that exist
DirPage(p, s) ==
    LET first == (p - 1) * s + 1
        last  == Min(p * s, dirSize)
    IN  [k \in 1..(IF last < first THEN 0 ELSE last - first + 1) |->
            [userId |-> first + k - 1]]

\* PageSize that always asks for a full page
PageSizeAlwaysMax(diff) == maxPageSize

\* PageSize without the cap
PageSizeUncapped(diff) == diff

\* the perPage getNMembers asks for when diff members are missing
PageSize(diff) == IF diff <= maxPageSize THEN diff ELSE maxPageSize

\* the page getNMembers asks for next, after a request made with diff missing
NextPage(p, diff) == IF diff <= maxPageSize THEN p ELSE p + 1

\* the loop head of getNMembers: ask for a page, or return members
LoopHead ==
    IF Len(fetched) < n
    THEN /\ pageReq' = <<[page |-> page, perPage |-> PageSize(n - Len(fetched))]>>
         /\ gpc' = "await"
    ELSE /\ gpc' = "returned"
         /\ UNCHANGED pageReq

\* getNMembers(n) is called
GetStart ==
    /\ gpc = "start"
    /\ LoopHead
    /\ UNCHANGED <<n, dirSize, page, fetched>>
    /\ UNCHANGED mainVars

\* getMembers after its await: resp.data is pushed, page is advanced, sleep(100)
PageResp(o) ==
    /\ gpc = "await"
    /\ o \in {"ok", "rejected"}
    /\ IF o = "ok"
       THEN /\ fetched' = fetched \o DirPage(pageReq[1].page, pageReq[1].perPage)
            /\ page' = NextPage(page, n - Len(fetched))
            /\ gpc' = "sleep"
       ELSE /\ gpc' = "threw"
            /\ UNCHANGED <<fetched, page>>
    /\ UNCHANGED <<n, dirSize, pageReq>>
    /\ UNCHANGED mainVars

\* the timer of sleep(100) fires: back to the loop head
SleepDone ==
    /\ gpc = "sleep"
    /\ page <= MaxPage
    /\ LoopHead
    /\ UNCHANGED <<n, dirSize, page, fetched>>
    /\ UNCHANGED mainVars

\* main() is not running
MainIdle ==
    /\ config = [AUTH0_CLIENT_ID |-> TRUE, AUTH0_CLIENT_SECRET |-> TRUE]
    /\ size = 0
    /\ pc = "idle"
    /\ members = <<>>
    /\ groupId = <<>>
    /\ i = 0
    /\ result = <<>>
    /\ elapsed = <<>>
    /\ requests = <<>>
    /\ responses = <<>>
    /\ pending = NoError
    /\ error = NoError
    /\ resp = <<>>
    /\ logged = <<>>

InitGet ==
    /\ n \in 0..MaxN
    /\ dirSize \in DirSizes
    /\ gpc = "start"
    /\ page = 1
    /\ fetched = <<>>
    /\ pageReq = <<>>
    /\ MainIdle

NextGet ==
    \/ GetStart
    \/ \E o \in Outcomes : PageResp(o)
    \/ SleepDone

SpecGet == InitGet /\ [][NextGet]_vars

\* the event loop delivers every response and fires every timer
FairSpecGet == SpecGet /\ WF_vars(NextGet)

----------------------------------------------------------------------------
(* Properties of main() and addMembers(), checked under Spec. *)

Ended == pc \in {"resolved", "rejected", "exit"}

KindCount(kind) == Cardinality({k \in 1..Len(requests) : requests[k].kind = kind})

\* the positions in requests of the bulk-add requests
AddIndexes == {k \in 1..Len(requests) : requests[k].kind = "addMembers"}

\* the position of the request that created the group with status 200, if any
CreatedIndexes ==
    {k \in 1..Len(responses) : requests[k].kind = "create" /\ responses[k].status = "ok"}

CeilDiv(a, b) == (a + b - 1) \div b

\* C1: once the group is created and patched (main() holds groupId), the run
\* never sends more than one delete request, and when the run has ended it has
\* sent exactly one, for that group, whether addMembers returned or threw.
C1_DeleteExactlyOnce ==
    /\ KindCount("delete") <= 1
    /\ (Ended /\ groupId # <<>>) =>
          /\ KindCount("delete") = 1
          /\ \E k \in 1..Len(requests) : requests[k] = Req("delete", groupId)

\* a run that ended after addMembers threw on failed members in its second chunk
C1_Witness ==
    /\ pc = "exit"
    /\ pending.kind = "MembersFailed"
    /\ i = chunkSize
    /\ KindCount("delete") = 1

\* C2: in every run in which the create request succeeded, a delete request
\* has been sent when the run has ended.
C2_DeleteAfterCreate ==
    (Ended /\ CreatedIndexes # {}) => KindCount("delete") = 1

\* C4: every bulk-add request carries between 1 and 100 members, and when
\* addMembers has returned it has sent ceil(M / 100) requests for M members.
C4_ChunkCount ==
    /\ \A k \in AddIndexes : Len(requests[k].body) \in 1..chunkSize
    /\ resp # <<>> => KindCount("addMembers") = CeilDiv(Len(members), chunkSize)

\* addMembers returned for a list that needs a last, smaller chunk
C4_Witness ==
    /\ resp # <<>>
    /\ Len(members) > 2 * chunkSize
    /\ Len(members) % chunkSize # 0
    /\ KindCount("addMembers") = 3

\* C5: when the time measured for chunk k is above 30000 ms, addMembers has
\* thrown the time limit error and chunk k stays the last chunk sent; the time
\* limit error is only ever thrown for a measured time above 30000 ms.
C5_TimeLimit ==
    /\ (elapsed # <<>> /\ elapsed[1] > TimeLimit) =>
          /\ pending.kind = "TimeLimit"
          /\ pc # "add"
          /\ resp = <<>>
          /\ KindCount("addMembers") = (i \div chunkSize) + 1
    /\ pending.kind = "TimeLimit" => (elapsed # <<>> /\ elapsed[1] > TimeLimit)

\* the first of several chunks was over the limit, and the run has ended
C5_Witness ==
    /\ pc = "exit"
    /\ pending.kind = "TimeLimit"
    /\ i = 0
    /\ Len(members) > chunkSize
    /\ KindCount("addMembers") = 1

\* the response to the last bulk-add request
LastAddData ==
    LET k == CHOOSE j \in AddIndexes : \A l \in AddIndexes : l <= j
    IN  responses[k].data

\* C6: when a chunk's response holds a failed member, the error addMembers
\* throws lists exactly the failed entries of that response, the chunk's
\* results are not in result, and no later chunk is sent.
C6_FailedListed ==
    pending.kind = "MembersFailed" =>
        /\ pending.listed = FailedOf(LastAddData)
        /\ Len(result) = i
        /\ resp = <<>>
        /\ KindCount("addMembers") = (i \div chunkSize) + 1

\* C7: when the bulk-add call of chunk k is rejected or answered with a status
\* other than 200, addMembers has thrown, has returned no result, and no
\* request after k is a bulk-add request.
C7_AbortOnHttpFailure ==
    \A k \in AddIndexes :
        (k <= Len(responses) /\ responses[k].status # "ok") =>
            /\ pending \in {HttpError("addMembers"), Err("AddFailed", "", <<>>)}
            /\ resp = <<>>
            /\ \A j \in AddIndexes : j <= k

\* the first of several chunks got a status other than 200, and the run ended
C7_Witness ==
    /\ pc = "exit"
    /\ \E k \in AddIndexes : k <= Len(responses) /\ responses[k].status = "non200"
    /\ i = 0
    /\ Len(members) > chunkSize

\* C11: when addMembers threw and the cleanup step has run, the error the
\* top-level handler logs is the error addMembers threw, whatever the delete
\* request was answered with.
C11_LoggedIsAddError ==
    (logged # <<>> /\ pending # NoError) =>
        logged[1] = [level |-> "error", what |-> pending]

\* the rank of a request kind in the order of the steps of a run
StepRank(kind) ==
    CASE kind = "token"      -> 1
      [] kind = "health"     -> 2
      [] kind = "create"     -> 3
      [] kind = "patch"      -> 4
      [] kind = "addMembers" -> 5
      [] kind = "delete"     -> 6

RECURSIVE SentMembers(_)
\* the members of the bulk-add requests among the first k requests, in order
SentMembers(k) ==
    IF k = 0 THEN <<>>
    ELSE SentMembers(k - 1) \o
         (IF requests[k].kind = "addMembers" THEN requests[k].body ELSE <<>>)

RECURSIVE AnsweredMembers(_)
\* the entries of the bulk-add responses among the first k responses, in order
AnsweredMembers(k) ==
    IF k = 0 THEN <<>>
    ELSE AnsweredMembers(k - 1) \o
         (IF requests[k].kind = "addMembers" THEN responses[k].data ELSE <<>>)

\* C13: the j-th bulk-add request carries the j-th chunk of the member list,
\* so the requests sent so far are the first chunks of the list, in order;
\* when addMembers has returned, the members sent are the member list, each
\* member once, and the result is the responses' entries in chunk order.
C13_ChunksPartition ==
    /\ LET sent == SentMembers(Len(requests))
       IN  /\ Len(sent) = Min(KindCount("addMembers") * chunkSize, Len(members))
           /\ sent = SubSeq(members, 1, Len(sent))
    /\ resp # <<>> =>
          /\ SentMembers(Len(requests)) = members
          /\ resp[1] = AnsweredMembers(Len(responses))
          /\ Len(resp[1]) = Len(members)

\* addMembers returned the result of three chunks, the last a smaller one
C13_Witness ==
    /\ resp # <<>>
    /\ Len(resp[1]) > 2 * chunkSize
    /\ Len(resp[1]) % chunkSize # 0
    /\ pc = "exit"

----------------------------------------------------------------------------
(* Properties of getNMembers(), checked under SpecGet. *)

\* the first count entries of the directory, in order
FirstOfDirectory(count) == [k \in 1..count |-> [userId |-> k]]

\* C3: with a directory of at least n members (every page comes back full),
\* getNMembers(n) returns exactly n identifiers.
C3_ExactCount ==
    (gpc = "returned" /\ dirSize >= n) => Len(fetched) = n

\* getNMembers returned for a count above 100 that is no multiple of 100
C3_Witness ==
    /\ gpc = "returned"
    /\ dirSize >= n
    /\ n > maxPageSize
    /\ n % maxPageSize # 0
    /\ page > 1

\* C8: every page request of getNMembers asks for between 1 and 100 entries.
C8_PerPageCapped ==
    pageReq # <<>> => pageReq[1].perPage \in 1..maxPageSize

\* a full page is asked for because more than 100 members are missing
C8_Witness ==
    /\ pageReq # <<>>
    /\ n - Len(fetched) > maxPageSize
    /\ pageReq[1].perPage = maxPageSize
    /\ gpc = "await"

\* C9: with a directory of at least n pairwise distinct members, served page
\* by page, getNMembers(n) returns the first n entries of the directory.
C9_FirstNInOrder ==
    (gpc = "returned" /\ dirSize >= n) => fetched = FirstOfDirectory(n)

\* C10: getNMembers eventually returns or throws.  A run that is cut off at
\* MaxPage counts as finished here, so that every violation is a loop of
\* getNMembers itself.  Checked under FairSpecGet.
C10_Terminates ==
    <>(gpc \in {"returned", "threw"} \/ page > MaxPage)

====
